---- MODULE Spec2Model ----
(***************************************************************************)
(* Model of scripts/sync_microsoft_skills.py: one invocation of main()     *)
(* clones the upstream repository into a temporary directory, copies the   *)
(* skills it finds into TARGET_DIR/official/microsoft, copies the          *)
(* documentation files and writes ATTRIBUTION.json.                        *)
(*                                                                         *)
(* A path is a sequence of names.  The fetched tree `fs` maps every        *)
(* existing path to an entry (directory, regular file or symbolic link).   *)
(* The output tree `out` maps every existing path below TARGET_DIR to the  *)
(* data of the file there (DirMark for a directory).                       *)
(***************************************************************************)
EXTENDS Integers, Sequences, FiniteSets, TLC

\* ------------------------------------------------------------------ bounds
MaxRuns == 2        \* invocations of main() in one behaviour
MaxFaults == 1      \* environment failures (clone, file copy, write) per behaviour
MaxLinkHops == 3    \* symbolic links followed while resolving one path

\* ------------------------------------------------------------ path algebra
NoPath == <<"<unresolved>">>
DirMark == "<dir>"

IsPrefix(a, b) == Len(a) <= Len(b) /\ SubSeq(b, 1, Len(a)) = a
Suffix(p, n) == SubSeq(p, n + 1, Len(p))          \* p without its first n names
Parent(p) == SubSeq(p, 1, Len(p) - 1)
Name(p) == p[Len(p)]

\* str(PurePath): the names joined by "/"; the empty relative path prints as "."
RECURSIVE Join(_)
Join(p) == IF Len(p) = 1 THEN p[1] ELSE p[1] \o "/" \o Join(Tail(p))
PathStr(p) == IF p = <<>> THEN "." ELSE Join(p)

\* ------------------------------------------------- the fetched tree (reads)
Dir(p) == p :> [kind |-> "dir", target |-> <<>>, data |-> ""]
File(p, d) == p :> [kind |-> "file", target |-> <<>>, data |-> d]
Link(p, t) == p :> [kind |-> "link", target |-> t, data |-> ""]

\* Follow `rest` name by name from the real directory `base`, following links.
RECURSIVE ResolveFrom(_, _, _, _)
ResolveFrom(t, base, rest, hops) ==
    IF rest = <<>> THEN base
    ELSE LET q == Append(base, Head(rest)) IN
         IF q \notin DOMAIN t THEN NoPath
         ELSE IF t[q].kind = "link"
              THEN IF hops = 0 THEN NoPath
                   ELSE ResolveFrom(t, <<>>, t[q].target \o Tail(rest), hops - 1)
              ELSE ResolveFrom(t, q, Tail(rest), hops)

\* Path.resolve(): the real path behind p, NoPath when nothing is there
Resolve(t, p) == ResolveFrom(t, <<>>, p, MaxLinkHops)

\* Path.exists(), Path.is_dir(), Path.is_file(): all follow symbolic links
Exists(t, p) == Resolve(t, p) # NoPath
IsDir(t, p) == Exists(t, p) /\ (Resolve(t, p) = <<>> \/ t[Resolve(t, p)].kind = "dir")
IsFile(t, p) == Exists(t, p) /\ Resolve(t, p) # <<>> /\ t[Resolve(t, p)].kind = "file"

\* Path.is_symlink(): the entry itself (its parent resolved) is a link
IsSymlink(t, p) ==
    /\ p # <<>>
    /\ Resolve(t, Parent(p)) # NoPath
    /\ Append(Resolve(t, Parent(p)), Name(p)) \in DOMAIN t
    /\ t[Append(Resolve(t, Parent(p)), Name(p))].kind = "link"

\* the data a read of p yields (p is a regular file, possibly through links)
ReadData(t, p) == t[Resolve(t, p)].data

\* os.scandir order: the listing order of a directory is a property of the
\* fetched tree (ord), ascending or descending in NameRank
NameRank(n) ==
    CASE n = ".github" -> 1
      [] n = "LICENSE" -> 2
      [] n = "README.md" -> 3
      [] n = "SKILL.md" -> 4
      [] n = "bundle" -> 5
      [] n = "docs" -> 6
      [] n = "extra" -> 7
      [] n = "helper" -> 8
      [] n = "notes.md" -> 9
      [] n = "plugins" -> 10
      [] n = "productivity" -> 11
      [] n = "references" -> 12
      [] n = "skills" -> 13
      [] n = "tools" -> 14
      [] n = "writer" -> 15
      [] n = "writer-plugin" -> 16
      [] OTHER -> 17

Before(ord, a, b) == IF ord = "asc" THEN NameRank(a) < NameRank(b)
                     ELSE NameRank(b) < NameRank(a)

RECURSIVE SortNames(_, _)
SortNames(ord, S) ==
    IF S = {} THEN <<>>
    ELSE LET first == CHOOSE a \in S : \A b \in S \ {a} : Before(ord, a, b)
         IN <<first>> \o SortNames(ord, S \ {first})

\* names of the entries of the directory behind p
ChildNames(t, p) ==
    LET r == Resolve(t, p) IN
    { Name(q) : q \in { q \in DOMAIN t : Len(q) = Len(r) + 1 /\ IsPrefix(r, q) } }

\* Path.iterdir(): the entries of p, in listing order
IterDir(t, ord, p) ==
    LET ns == SortNames(ord, ChildNames(t, p))
    IN [i \in 1..Len(ns) |-> Append(p, ns[i])]

RECURSIVE Concat(_)
Concat(ss) == IF ss = <<>> THEN <<>> ELSE Head(ss) \o Concat(Tail(ss))

\* the directories "**" visits from p: p itself, then, depth first, every
\* sub-directory that is not a symbolic link (pathlib does not recurse into links)
RECURSIVE WalkDirs(_, _, _)
WalkDirs(t, ord, p) ==
    LET kids == IterDir(t, ord, p)
        real == SelectSeq(kids, LAMBDA q : IsDir(t, q) /\ ~IsSymlink(t, q))
    IN <<p>> \o Concat([i \in 1..Len(real) |-> WalkDirs(t, ord, real[i])])

\* Path.rglob("*"): every entry of every visited directory
RGlobAll(t, ord, p) ==
    LET ds == WalkDirs(t, ord, p)
    IN Concat([i \in 1..Len(ds) |-> IterDir(t, ord, ds[i])])

\* Path.rglob("SKILL.md"): the entry of that name in every visited directory
RGlobSkillMd(t, ord, p) ==
    LET ds == WalkDirs(t, ord, p)
        hit == SelectSeq(ds, LAMBDA d : "SKILL.md" \in ChildNames(t, d))
    IN [i \in 1..Len(hit) |-> Append(hit[i], "SKILL.md")]

\* --------------------------------------------------- the bounded tree family
SOURCE == <<"tmp">>                       \* temp_path: the clone's root
SKILLS == SOURCE \o <<"skills">>
GH_SKILLS == SOURCE \o <<".github", "skills">>
GH_PLUGINS == SOURCE \o <<".github", "plugins">>
WRITER == SKILLS \o <<"productivity", "writer">>
SK_HELPER == SKILLS \o <<"helper">>
BUNDLE == SKILLS \o <<"bundle">>
GS_WRITER == GH_SKILLS \o <<"writer-plugin">>
GP_WRITER == GH_PLUGINS \o <<"docs", "writer-plugin">>
GP_HELPER1 == GH_PLUGINS \o <<"tools", "helper">>
GP_HELPER2 == GH_PLUGINS \o <<"extra", "helper">>
EXT_SHARED == <<"ext", "shared">>         \* a directory outside the clone

DataOf(p) == "data:" \o PathStr(p)

\* a skill directory: the marker file, one more regular file, one sub-directory
SkillDir(p) ==
    Dir(p) @@ File(Append(p, "SKILL.md"), DataOf(Append(p, "SKILL.md")))
           @@ File(Append(p, "notes.md"), DataOf(Append(p, "notes.md")))
           @@ Dir(Append(p, "references"))
           @@ File(p \o <<"references", "api.md">>, DataOf(p \o <<"references", "api.md">>))

Opt(c, f) == IF c THEN f ELSE <<>>

WriterKinds == {"none", "dir", "link_gs", "link_ext"}
GsKinds == {"none", "dir", "link_gp", "dir_and_gp"}

\* sk: skills/ exists; w: what skills/productivity/writer is; gs: what
\* .github/skills/writer-plugin is (a link there leads to the plugin directory
\* docs/writer-plugin; "dir_and_gp" is a directory beside a plugin directory of
\* the same name); h1, h2: the plugin directories tools/helper and
\* extra/helper exist; sh: skills/helper exists; anc: skills/bundle is a link to
\* the plugin group directory tools.  LICENSE or README.md is at the root.
Tree(sk, w, gs, h1, h2, sh, anc) ==
    Dir(SOURCE) @@ Dir(<<"ext">>) @@ SkillDir(EXT_SHARED)
    @@ Opt(h1, File(Append(SOURCE, "LICENSE"), "data:LICENSE"))
    @@ Opt(~h1, File(Append(SOURCE, "README.md"), "data:README"))
    @@ Opt(gs # "none" \/ h1 \/ h2, Dir(Append(SOURCE, ".github")))
    @@ Opt(gs # "none", Dir(GH_SKILLS))
    @@ Opt(gs \in {"dir", "dir_and_gp"}, SkillDir(GS_WRITER))
    @@ Opt(gs = "link_gp", Link(GS_WRITER, GP_WRITER))
    @@ Opt(gs \in {"link_gp", "dir_and_gp"} \/ h1 \/ h2, Dir(GH_PLUGINS))
    @@ Opt(gs \in {"link_gp", "dir_and_gp"}, Dir(Parent(GP_WRITER)) @@ SkillDir(GP_WRITER))
    @@ Opt(h1, Dir(Parent(GP_HELPER1)) @@ SkillDir(GP_HELPER1))
    @@ Opt(h2, Dir(Parent(GP_HELPER2)) @@ SkillDir(GP_HELPER2))
    @@ Opt(sk, Dir(SKILLS) @@ Dir(Parent(WRITER)))
    @@ Opt(sk /\ w = "dir", SkillDir(WRITER))
    @@ Opt(sk /\ w = "link_gs", Link(WRITER, GS_WRITER))
    @@ Opt(sk /\ w = "link_ext", Link(WRITER, EXT_SHARED))
    @@ Opt(sk /\ sh, SkillDir(SK_HELPER))
    @@ Opt(sk /\ anc, Link(BUNDLE, Parent(GP_HELPER1)))

\* the orders a directory listing can come in
Orders == {"asc", "desc"}

Trees ==
    { Tree(sk, w, gs, h1, h2, sh, anc) :
        sk \in BOOLEAN, w \in WriterKinds, gs \in GsKinds,
        h1 \in BOOLEAN, h2 \in BOOLEAN, sh \in BOOLEAN, anc \in BOOLEAN }

\* ------------------------------------------------ the output tree (writes)
MS == <<"official", "microsoft">>          \* below TARGET_DIR
ATTRIBUTION == MS \o <<"ATTRIBUTION.json">>

Prefixes(p) == { SubSeq(p, 1, i) : i \in 0..Len(p) }

\* Path.mkdir(parents=True, exist_ok=True): fails when a name on the way is a file
Mkdir(o, p) ==
    LET blocked == \E q \in Prefixes(p) : q \in DOMAIN o /\ o[q] # DirMark
    IN [ok |-> ~blocked,
        out |-> IF blocked THEN o ELSE o @@ [q \in Prefixes(p) |-> DirMark]]

\* What one shutil.copy2(src, dir / as) reads from the clone: the source's
\* name, whether it is readable as a regular file, and its data
CopyOf(t, src, as) ==
    [name |-> Name(src), as |-> as, readable |-> IsFile(t, src),
     data |-> IF IsFile(t, src) THEN ReadData(t, src) ELSE ""]

\* where copy2 writes: into dst when dst is a directory
CopyDest(o, dir, c) ==
    IF Append(dir, c.as) \in DOMAIN o /\ o[Append(dir, c.as)] = DirMark
    THEN dir \o <<c.as, c.name>>
    ELSE Append(dir, c.as)

\* copy2: the destination is overwritten unconditionally
Copy2(o, dir, c) == (CopyDest(o, dir, c) :> c.data) @@ o

\* copy2 raises when the source is no regular file or the destination,
\* after redirection into a directory, is still a directory
CanCopy(o, dir, c) ==
    /\ c.readable
    /\ ~(CopyDest(o, dir, c) \in DOMAIN o /\ o[CopyDest(o, dir, c)] = DirMark)

\* faulty variant: the regular files of the sub-directories are taken as well
SkillFiles_WithSubdirs(t, ord, src) ==
    <<Append(src, "SKILL.md")>>
    \o SelectSeq(RGlobAll(t, ord, src),
                 LAMBDA f : f # Append(src, "SKILL.md") /\ IsFile(t, f))

\* the files one skill copy reads, in order: SKILL.md, then every other
\* regular file directly inside the skill's source directory
SkillFiles(t, ord, src) ==
    <<Append(src, "SKILL.md")>>
    \o SelectSeq(IterDir(t, ord, src),
                 LAMBDA f : Name(f) # "SKILL.md" /\ IsFile(t, f))

\* lines 102-107, 129-134, 179-184: the copies of one skill
SkillCopies(t, ord, src) ==
    LET files == SkillFiles(t, ord, src)
    IN [i \in 1..Len(files) |-> CopyOf(t, files[i], Name(files[i]))]

\* the first n of the copies cs into dir; stuck when one cannot be made
RECURSIVE CopyFiles(_, _, _, _)
CopyFiles(o, dir, cs, n) ==
    IF n = 0 \/ cs = <<>> THEN [out |-> o, done |-> {}, stuck |-> FALSE]
    ELSE IF ~CanCopy(o, dir, Head(cs)) THEN [out |-> o, done |-> {}, stuck |-> TRUE]
         ELSE LET r == CopyFiles(Copy2(o, dir, Head(cs)), dir, Tail(cs), n - 1)
              IN [out |-> r.out,
                  done |-> r.done \cup {CopyDest(o, dir, Head(cs))},
                  stuck |-> r.stuck]

\* mkdir(dir) and the copies cs after it; n is the number of copies made before
\* the environment fails one (all of them: no failure)
CopyInto(o, dir, cs, n) ==
    IF ~Mkdir(o, dir).ok THEN [ok |-> FALSE, out |-> o, done |-> {}]
    ELSE LET r == CopyFiles(Mkdir(o, dir).out, dir, cs, n)
         IN [ok |-> n = Len(cs) /\ ~r.stuck, out |-> r.out, done |-> r.done]

\* ------------------------------------------------------------ skill locator
\* faulty variant: a later directory of a taken name replaces the mapped source
RECURSIVE AddOverriding(_, _)
AddOverriding(acc, dirs) ==
    IF dirs = <<>> THEN acc
    ELSE IF \E i \in 1..Len(acc) : acc[i].name = Name(Head(dirs))
         THEN AddOverriding([i \in 1..Len(acc) |->
                                IF acc[i].name = Name(Head(dirs))
                                THEN [name |-> acc[i].name, source |-> Head(dirs)]
                                ELSE acc[i]],
                            Tail(dirs))
         ELSE AddOverriding(Append(acc, [name |-> Name(Head(dirs)), source |-> Head(dirs)]),
                            Tail(dirs))

\* faulty variant: only the directories directly below .github/plugins are looked at
PluginDirs_TopLevelOnly(t, ord) ==
    IF Exists(t, GH_PLUGINS)
    THEN SelectSeq(IterDir(t, ord, GH_PLUGINS),
                   LAMBDA d : IsDir(t, d) /\ Exists(t, Append(d, "SKILL.md")))
    ELSE <<>>

\* find_all_skills: name -> source directory, in insertion order;
\* .github/skills first, then every SKILL.md below .github/plugins whose
\* directory name is not yet taken
RECURSIVE AddUnseen(_, _)
AddUnseen(acc, dirs) ==
    IF dirs = <<>> THEN acc
    ELSE IF \E i \in 1..Len(acc) : acc[i].name = Name(Head(dirs))
         THEN AddUnseen(acc, Tail(dirs))
         ELSE AddUnseen(Append(acc, [name |-> Name(Head(dirs)), source |-> Head(dirs)]),
                        Tail(dirs))

PluginDirs(t, ord) ==
    IF Exists(t, GH_PLUGINS)
    THEN LET md == RGlobSkillMd(t, ord, GH_PLUGINS)
         IN [i \in 1..Len(md) |-> Parent(md[i])]
    ELSE <<>>

PluginDirsOf == [t \in Trees, ord \in Orders |-> PluginDirs(t, ord)]

find_all_skills(t, ord) ==
    LET primary == IF Exists(t, GH_SKILLS)
                   THEN SelectSeq(IterDir(t, ord, GH_SKILLS),
                                  LAMBDA d : IsDir(t, d) /\ Exists(t, Append(d, "SKILL.md")))
                   ELSE <<>>
    IN AddUnseen([i \in 1..Len(primary) |-> [name |-> Name(primary[i]), source |-> primary[i]]],
                 PluginDirs(t, ord))

\* faulty variant: the names already synced are not consulted
find_plugin_skills_unfiltered(t, ord, already_synced) ==
    [i \in 1..Len(PluginDirsOf[t, ord]) |->
        [name |-> Name(PluginDirsOf[t, ord][i]), source |-> PluginDirsOf[t, ord][i]]]

\* find_plugin_skills: every SKILL.md directory below .github/plugins whose
\* name is not the name of an entry of already_synced
find_plugin_skills(t, ord, already_synced) ==
    LET synced_names == { already_synced[i].name : i \in 1..Len(already_synced) }
        dirs == SelectSeq(PluginDirsOf[t, ord], LAMBDA d : Name(d) \notin synced_names)
    IN [i \in 1..Len(dirs) |-> [name |-> Name(dirs[i]), source |-> dirs[i]]]

\* faulty variant: a symbolic link is not resolved: only real directories are skills
SkillSourceDir_IgnoresLinks(t, item) ==
    IF ~IsDir(t, item) \/ IsSymlink(t, item) THEN NoPath
    ELSE IF Exists(t, Append(item, "SKILL.md")) THEN item ELSE NoPath

\* lines 70-88: the directory whose content the walk copies for `item`,
\* NoPath when the item is skipped
SkillSourceDir(t, item) ==
    IF ~IsDir(t, item) THEN NoPath
    ELSE IF IsSymlink(t, item)
         THEN IF Exists(t, Append(Resolve(t, item), "SKILL.md"))
              THEN Resolve(t, item) ELSE NoPath
         ELSE IF Exists(t, Append(item, "SKILL.md")) THEN item ELSE NoPath

\* Path.relative_to(base) raises ValueError unless base is a prefix
CanRelativeTo(p, base) == IsPrefix(base, p)
RelativeTo(p, base) == Suffix(p, Len(base))

\* lines 110-115: the metadata entry of a structure-preserving placement
StructureEntry(item, src) ==
    [path |-> PathStr(RelativeTo(item, SKILLS)),
     name |-> Name(item),
     category |-> PathStr(Parent(RelativeTo(item, SKILLS))),
     source |-> PathStr(RelativeTo(src, SOURCE))]

\* lines 136-141
PluginEntry(ps) ==
    [path |-> "plugins/" \o ps.name,
     name |-> ps.name,
     category |-> "plugins",
     source |-> PathStr(RelativeTo(ps.source, SOURCE))]

\* lines 186-190
FlatEntry(sk) == [path |-> sk.name, name |-> sk.name, category |-> "root"]

\* lines 219-223: the copies copy_documentation makes, in order
DocCopies(t) ==
    (IF Exists(t, Append(SOURCE, "LICENSE"))
     THEN <<CopyOf(t, Append(SOURCE, "LICENSE"), "LICENSE")>>
     ELSE <<>>)
    \o (IF Exists(t, Append(SOURCE, "README.md"))
        THEN <<CopyOf(t, Append(SOURCE, "README.md"), "README-MICROSOFT.md")>>
        ELSE <<>>)

\* lines 199-206: the document create_attribution_file serialises
AttributionDoc(metadata) ==
    [complete |-> TRUE, synced_skills |-> Len(metadata), skills |-> metadata]
\* what open(..., "w") leaves when the write after it fails
TruncatedDoc == [complete |-> FALSE, synced_skills |-> 0, skills |-> <<>>]

\* faulty variant: the new entries are merged into the document found on disk
WriteAttribution_Merging(old, metadata) ==
    IF old = <<>> THEN <<AttributionDoc(metadata)>>
    ELSE <<AttributionDoc(old[1].skills \o metadata)>>

\* lines 211-212: mode "w" replaces whatever the file held
WriteAttribution(old, metadata) == <<AttributionDoc(metadata)>>

\* What a run reads from the clone: the clone does not change while main()
\* runs, so every reading is a function of the tree and its listing order
SkillSources(t) == { d \in DOMAIN t : IsDir(t, d) /\ Exists(t, Append(d, "SKILL.md")) }
HasSkillsDir == [t \in Trees |-> Exists(t, SKILLS)]
SkillsWalk == [t \in Trees, ord \in Orders |-> RGlobAll(t, ord, SKILLS)]
SourceDirs == [t \in Trees |-> [item \in DOMAIN t |-> SkillSourceDir(t, item)]]
FlatSkills == [t \in Trees, ord \in Orders |-> find_all_skills(t, ord)]
SkillCopiesOf ==
    [t \in Trees, ord \in Orders |-> [src \in SkillSources(t) |-> SkillCopies(t, ord, src)]]
DocCopiesOf == [t \in Trees |-> DocCopies(t)]

\* ----------------------------------------------------------------- state
VARIABLES
    fs,              \* the upstream tree, as git clone lays it out below temp_path
    order,           \* its directory listing order
    out,             \* the tree below TARGET_DIR
    attribution,     \* <<>> or <<the content of ATTRIBUTION.json>>
    temp,            \* the temporary directory: "none", "empty", "cloned"
    pc,              \* where main() is
    todo,            \* what the running loop still has to visit
    skill_metadata,  \* the metadata list being built
    synced_count,
    exit_status,     \* of the last finished run; -1 before
    runs,            \* invocations of main() so far
    faults,          \* environment failures so far
    written,         \* history: output files written by the current run
    out0,            \* history: out when the current run started
    attribution0,    \* history: attribution when the current run started
    prev_exit,       \* history: exit status of the run before the current one
    clone_result,    \* history: "none", "ok" or "failed" in the current run
    clone_attempts   \* history: git clone invocations of the current run

vars == <<fs, order, out, attribution, temp, pc, todo, skill_metadata, synced_count,
          exit_status, runs, faults, written, out0, attribution0, prev_exit,
          clone_result, clone_attempts>>

\* an output tree left by an earlier sync of other upstream content
StaleOut ==
    [q \in Prefixes(MS \o <<"old">>) \cup Prefixes(MS \o <<"plugins", "helper">>)
           \cup {MS \o <<"old", "SKILL.md">>, MS \o <<"plugins", "helper", "SKILL.md">>} |->
        IF q \in Prefixes(MS \o <<"old">>) \cup Prefixes(MS \o <<"plugins", "helper">>)
        THEN DirMark ELSE "data:stale"]
StaleDoc ==
    AttributionDoc(<<[path |-> "old", name |-> "old", category |-> ".", source |-> "skills/old"],
                     PluginEntry([name |-> "helper", source |-> GP_HELPER1])>>)

Init ==
    /\ fs \in Trees
    /\ order \in Orders
    /\ \E stale \in BOOLEAN :
          /\ out = IF stale THEN StaleOut ELSE <<>>
          /\ attribution = IF stale THEN <<StaleDoc>> ELSE <<>>
    /\ temp = "none"
    /\ pc = "idle"
    /\ todo = <<>>
    /\ skill_metadata = <<>>
    /\ synced_count = 0
    /\ exit_status = -1
    /\ runs = 0
    /\ faults = 0
    /\ written = {}
    /\ out0 = out
    /\ attribution0 = attribution
    /\ prev_exit = -1
    /\ clone_result = "none"
    /\ clone_attempts = 0

\* ------------------------------------------------------------------ main()
\* line 230: the TemporaryDirectory scope is entered
StartRun ==
    /\ pc \in {"idle", "done"}
    /\ runs < MaxRuns
    /\ runs' = runs + 1
    /\ temp' = "empty"
    /\ pc' = "clone"
    /\ todo' = <<>>
    /\ skill_metadata' = <<>>
    /\ synced_count' = 0
    /\ prev_exit' = exit_status
    /\ exit_status' = -1
    /\ written' = {}
    /\ out0' = out
    /\ attribution0' = attribution
    /\ clone_result' = "none"
    /\ clone_attempts' = 0
    /\ UNCHANGED <<fs, order, out, attribution, faults>>

\* faulty variant: the target directory is created before the clone is attempted
clone_repo_AfterMkdir ==
    /\ pc = "clone"
    /\ \E ok \in BOOLEAN :
          /\ ~ok => faults < MaxFaults
          /\ temp' = IF ok THEN "cloned" ELSE temp
          /\ pc' = IF ok THEN "mkdir" ELSE "except"
          /\ faults' = IF ok THEN faults ELSE faults + 1
          /\ clone_result' = IF ok THEN "ok" ELSE "failed"
    /\ clone_attempts' = clone_attempts + 1
    /\ out' = Mkdir(out, <<>>).out
    /\ UNCHANGED <<fs, order, attribution, todo, skill_metadata, synced_count,
                   exit_status, runs, written, out0, attribution0, prev_exit>>

\* lines 16-22, 235: git clone; check=True raises when it fails
clone_repo ==
    /\ pc = "clone"
    /\ \E ok \in BOOLEAN :
          /\ ~ok => faults < MaxFaults
          /\ temp' = IF ok THEN "cloned" ELSE temp
          /\ pc' = IF ok THEN "mkdir" ELSE "except"
          /\ faults' = IF ok THEN faults ELSE faults + 1
          /\ clone_result' = IF ok THEN "ok" ELSE "failed"
    /\ clone_attempts' = clone_attempts + 1
    /\ UNCHANGED <<fs, order, out, attribution, todo, skill_metadata, synced_count,
                   exit_status, runs, written, out0, attribution0, prev_exit>>

\* faulty variant: the target directory is emptied before it is filled
MkTargetDir_Fresh ==
    /\ pc = "mkdir"
    /\ out' = Mkdir(<<>>, <<>>).out
    /\ pc' = "sync"
    /\ UNCHANGED <<fs, order, attribution, temp, todo, skill_metadata, synced_count,
                   exit_status, runs, faults, written, out0, attribution0,
                   prev_exit, clone_result, clone_attempts>>

\* line 238
MkTargetDir ==
    /\ pc = "mkdir"
    /\ out' = Mkdir(out, <<>>).out
    /\ pc' = IF Mkdir(out, <<>>).ok THEN "sync" ELSE "except"
    /\ UNCHANGED <<fs, order, attribution, temp, todo, skill_metadata, synced_count,
                   exit_status, runs, faults, written, out0, attribution0,
                   prev_exit, clone_result, clone_attempts>>

\* lines 51-65 and 169: which strategy runs, and what its loop will visit
SyncEntry ==
    /\ pc = "sync"
    /\ IF ~HasSkillsDir[fs]
       THEN todo' = FlatSkills[fs, order] /\ pc' = "flat"
       ELSE todo' = SkillsWalk[fs, order] /\ pc' = "walk"
    /\ UNCHANGED <<fs, order, out, attribution, temp, skill_metadata, synced_count,
                   exit_status, runs, faults, written, out0, attribution0,
                   prev_exit, clone_result, clone_attempts>>

\* faulty variant: a failing copy is caught per skill and the loop goes on
CopyOne_SkipsFailed(items, src, tdir, entry, entry_ok) ==
    \E cs \in {SkillCopiesOf[fs, order][src]} :
    \E n \in 0..Len(cs) :
    \E r \in {CopyInto(out, tdir, cs, n)} :
       /\ n < Len(cs) => faults < MaxFaults /\ Mkdir(out, tdir).ok
       /\ faults' = IF n < Len(cs) THEN faults + 1 ELSE faults
       /\ out' = r.out
       /\ written' = written \cup r.done
       /\ todo' = Tail(items)
       /\ pc' = pc
       /\ IF r.ok /\ entry_ok
          THEN /\ skill_metadata' = Append(skill_metadata, entry)
               /\ synced_count' = synced_count + 1
          ELSE UNCHANGED <<skill_metadata, synced_count>>

\* one skill copy of any of the three loops: mkdir, the copies, the metadata
\* entry; an exception leaves the loop for main's handler
CopyOne(items, src, tdir, entry, entry_ok) ==
    \E cs \in {SkillCopiesOf[fs, order][src]} :
    \E n \in 0..Len(cs) :
    \E r \in {CopyInto(out, tdir, cs, n)} :
       /\ n < Len(cs) => faults < MaxFaults /\ Mkdir(out, tdir).ok
       /\ faults' = IF n < Len(cs) THEN faults + 1 ELSE faults
       /\ out' = r.out
       /\ written' = written \cup r.done
       /\ IF r.ok /\ entry_ok
          THEN /\ skill_metadata' = Append(skill_metadata, entry)
               /\ synced_count' = synced_count + 1
               /\ todo' = Tail(items)
               /\ pc' = pc
          ELSE /\ pc' = "except"
               /\ UNCHANGED <<todo, skill_metadata, synced_count>>

\* lines 66-88: the iterations that `continue` change nothing
RECURSIVE DropSkipped(_, _)
DropSkipped(t, items) ==
    IF items = <<>> \/ SourceDirs[t][Head(items)] # NoPath THEN items
    ELSE DropSkipped(t, Tail(items))

\* lines 65-118: the walk over skills/ up to and including its next placement
WalkItem ==
    /\ pc = "walk"
    /\ \E items \in {DropSkipped(fs, todo)} :
          /\ items # <<>>
          /\ \E src \in {SourceDirs[fs][Head(items)]} :
                CopyOne(items, src, MS \o RelativeTo(Head(items), SKILLS),
                        StructureEntry(Head(items), src), CanRelativeTo(src, SOURCE))
    /\ UNCHANGED <<fs, order, attribution, temp, exit_status, runs, out0, attribution0,
                   prev_exit, clone_result, clone_attempts>>

\* lines 120-122: the walk is over; the supplemental plugin pass is set up
WalkDone ==
    /\ pc = "walk"
    /\ DropSkipped(fs, todo) = <<>>
    /\ todo' = find_plugin_skills(fs, order, skill_metadata)
    /\ pc' = "plugins"
    /\ UNCHANGED <<fs, order, out, attribution, temp, skill_metadata, synced_count,
                   exit_status, runs, faults, written, out0, attribution0,
                   prev_exit, clone_result, clone_attempts>>

\* lines 124-144: one iteration of the plugin pass
PluginItem ==
    /\ pc = "plugins"
    /\ todo # <<>>
    /\ CopyOne(todo, Head(todo).source, MS \o <<"plugins", Head(todo).name>>,
               PluginEntry(Head(todo)), CanRelativeTo(Head(todo).source, SOURCE))
    /\ UNCHANGED <<fs, order, attribution, temp, exit_status, runs, out0, attribution0,
                   prev_exit, clone_result, clone_attempts>>

\* lines 174-193: one iteration of the flat fallback
FlatItem ==
    /\ pc = "flat"
    /\ todo # <<>>
    /\ CopyOne(todo, Head(todo).source, MS \o <<Head(todo).name>>, FlatEntry(Head(todo)), TRUE)
    /\ UNCHANGED <<fs, order, attribution, temp, exit_status, runs, out0, attribution0,
                   prev_exit, clone_result, clone_attempts>>

\* faulty variant: the metadata document is written as soon as the pass returns
SyncReturn_WritesMetadata ==
    /\ pc \in {"plugins", "flat"}
    /\ todo = <<>>
    /\ pc' = "docs"
    /\ attribution' = WriteAttribution(attribution, skill_metadata)
    /\ UNCHANGED <<fs, order, out, temp, todo, skill_metadata, synced_count,
                   exit_status, runs, faults, written, out0, attribution0,
                   prev_exit, clone_result, clone_attempts>>

\* lines 146, 195: the pass returns (count, metadata) to main
SyncReturn ==
    /\ pc \in {"plugins", "flat"}
    /\ todo = <<>>
    /\ pc' = "docs"
    /\ UNCHANGED <<fs, order, out, attribution, temp, todo, skill_metadata, synced_count,
                   exit_status, runs, faults, written, out0, attribution0,
                   prev_exit, clone_result, clone_attempts>>

\* lines 214-223, 246
copy_documentation ==
    /\ pc = "docs"
    /\ \E cs \in {DocCopiesOf[fs]} :
       \E n \in 0..Len(cs) :
       \E r \in {CopyInto(out, MS, cs, n)} :
          /\ n < Len(cs) => faults < MaxFaults /\ Mkdir(out, MS).ok
          /\ faults' = IF n < Len(cs) THEN faults + 1 ELSE faults
          /\ out' = r.out
          /\ written' = written \cup r.done
          /\ pc' = IF r.ok THEN "attr" ELSE "except"
    /\ UNCHANGED <<fs, order, attribution, temp, todo, skill_metadata, synced_count,
                   exit_status, runs, out0, attribution0, prev_exit, clone_result, clone_attempts>>

\* lines 197-212, 250: ATTRIBUTION.json is opened for writing and dumped
create_attribution_file ==
    /\ pc = "attr"
    /\ \E how \in {"ok", "open_fails", "write_fails"} :
          LET m == Mkdir(out, MS)
          IN /\ how # "ok" => faults < MaxFaults /\ m.ok
             /\ faults' = IF how # "ok" THEN faults + 1 ELSE faults
             /\ out' = m.out
             /\ attribution' = IF ~m.ok \/ how = "open_fails" THEN attribution
                               ELSE IF how = "write_fails" THEN <<TruncatedDoc>>
                               ELSE WriteAttribution(attribution, skill_metadata)
             /\ pc' = IF m.ok /\ how = "ok" THEN "summary" ELSE "except"
    /\ UNCHANGED <<fs, order, temp, todo, skill_metadata, synced_count, exit_status,
                   runs, written, out0, attribution0, prev_exit, clone_result, clone_attempts>>

\* lines 252-282: the summary is printed, the TemporaryDirectory scope is left
\* (the clone is removed) and main returns 0
ReturnSuccess ==
    /\ pc = "summary"
    /\ temp' = "none"
    /\ exit_status' = 0
    /\ pc' = "done"
    /\ UNCHANGED <<fs, order, out, attribution, todo, skill_metadata, synced_count,
                   runs, faults, written, out0, attribution0,
                   prev_exit, clone_result, clone_attempts>>

\* faulty variant: the handler returns past the cleanup of the temporary directory
ReturnFailure_KeepsClone ==
    /\ pc = "except"
    /\ exit_status' = 1
    /\ pc' = "done"
    /\ UNCHANGED <<fs, order, out, attribution, temp, todo, skill_metadata, synced_count,
                   runs, faults, written, out0, attribution0, prev_exit, clone_result,
                   clone_attempts>>

\* lines 276-280: the handler returns 1 from inside the TemporaryDirectory scope,
\* which removes the clone on the way out
ReturnFailure ==
    /\ pc = "except"
    /\ temp' = "none"
    /\ exit_status' = 1
    /\ pc' = "done"
    /\ UNCHANGED <<fs, order, out, attribution, todo, skill_metadata, synced_count,
                   runs, faults, written, out0, attribution0,
                   prev_exit, clone_result, clone_attempts>>

Next ==
    \/ StartRun
    \/ clone_repo
    \/ MkTargetDir
    \/ SyncEntry
    \/ WalkItem
    \/ WalkDone
    \/ PluginItem
    \/ FlatItem
    \/ SyncReturn
    \/ copy_documentation
    \/ create_attribution_file
    \/ ReturnSuccess
    \/ ReturnFailure

\* ------------------------------------------------------- notions of the claims
MaxDepth == 4       \* names below skills/ a stated path may have

Succeeded == pc = "done" /\ exit_status = 0
UsedStructure == Exists(fs, SKILLS)
OutHasFile(p) == p \in DOMAIN out /\ out[p] # DirMark

\* every path below p that names a directory, symbolic links followed
RECURSIVE DirsBelow(_, _, _)
DirsBelow(t, p, depth) ==
    IF depth = 0 THEN {}
    ELSE UNION { {q} \cup DirsBelow(t, q, depth - 1) :
                 q \in { q \in { Append(p, n) : n \in ChildNames(t, p) } : IsDir(t, q) } }

\* the directories below skills/ that hold a SKILL.md, themselves or through
\* the link they are
SkillDirsUnderSkills == { d \in DirsBelow(fs, SKILLS, MaxDepth) : Exists(fs, Append(d, "SKILL.md")) }

\* a name strictly between skills/ and d is a symbolic link
HasLinkAncestor(d) ==
    \E i \in (Len(SKILLS) + 1)..(Len(d) - 1) : IsSymlink(fs, SubSeq(d, 1, i))

\* the placements of the structure-preserving pass, stated from the tree
Placements == { d \in SkillDirsUnderSkills : ~HasLinkAncestor(d) }
PlacedNames == { Name(d) : d \in Placements }
PlacedAt(d) == MS \o RelativeTo(d, SKILLS)

\* the real directories below .github/plugins that hold a SKILL.md
PluginSkillDirs ==
    { d \in DOMAIN fs : /\ IsPrefix(GH_PLUGINS, d) /\ fs[d].kind = "dir"
                        /\ Append(d, "SKILL.md") \in DOMAIN fs }

Entries(doc) == { doc.skills[i] : i \in 1..Len(doc.skills) }

\* C1 as stated: after a successful structure-preserving run, every directory at
\* any depth under skills/ that holds SKILL.md (directly or through the link it
\* is) has official/microsoft/<same relative path>/SKILL.md in the output.
C1_EverySkillDirPlaced ==
    (Succeeded /\ UsedStructure) =>
        \A d \in SkillDirsUnderSkills : OutHasFile(Append(PlacedAt(d), "SKILL.md"))

\* C1 amended: the same for every such directory that is not reached through a
\* symbolic link above it (the directory itself may be a link); the output file
\* holds the content of the SKILL.md behind it.
C1_DirectSkillDirPlaced ==
    (Succeeded /\ UsedStructure) =>
        \A d \in Placements :
            /\ OutHasFile(Append(PlacedAt(d), "SKILL.md"))
            /\ out[Append(PlacedAt(d), "SKILL.md")] = ReadData(fs, Append(d, "SKILL.md"))

C1_Witness ==
    /\ Succeeded /\ UsedStructure
    /\ \E d, e \in Placements : IsSymlink(fs, d) /\ ~IsSymlink(fs, e)
    /\ \E d \in SkillDirsUnderSkills : HasLinkAncestor(d)

\* C2: after a successful run, synced_skills equals the length of the skills
\* list and the number of distinct skill directories the run wrote, and no two
\* entries of the list have the same output path.
C2_CountMatchesDirectories ==
    Succeeded =>
        /\ Len(attribution) = 1
        /\ attribution[1].synced_skills = Len(attribution[1].skills)
        /\ attribution[1].synced_skills =
              Cardinality({ Parent(p) : p \in { p \in written : Name(p) = "SKILL.md" } })
        /\ \A i, j \in 1..Len(attribution[1].skills) :
              attribution[1].skills[i].path = attribution[1].skills[j].path => i = j

\* C3: in a structure-preserving run, nothing is written below
\* official/microsoft/plugins/<name>, and no entry of category "plugins" is
\* recorded, for a name the structure-preserving pass has placed.
C3_NoPluginDuplicateOfPlacedName ==
    UsedStructure =>
        \A i \in 1..Len(skill_metadata) :
            skill_metadata[i].category # "plugins" =>
                /\ \A p \in written :
                      ~IsPrefix(MS \o <<"plugins", skill_metadata[i].name>>, p)
                /\ \A j \in 1..Len(skill_metadata) :
                      skill_metadata[j].category = "plugins" =>
                          skill_metadata[j].name # skill_metadata[i].name

C3_Witness ==
    /\ Succeeded /\ UsedStructure
    /\ \E d \in PluginSkillDirs : Name(d) \in PlacedNames
    /\ \E d \in PluginSkillDirs : Name(d) \notin PlacedNames
    /\ \E i \in 1..Len(skill_metadata) : skill_metadata[i].category = "plugins"

\* C4: when skills/productivity/writer is a link that resolves, through
\* .github/skills/writer-plugin, to a directory named writer-plugin holding
\* SKILL.md, a successful run produces official/microsoft/productivity/writer/SKILL.md
\* and neither an output directory plugins/writer-plugin nor a metadata entry
\* for it.
C4_LinkedSkillNotCopiedAgain ==
    (/\ Succeeded /\ UsedStructure
     /\ WRITER \in DOMAIN fs /\ fs[WRITER].kind = "link" /\ fs[WRITER].target = GS_WRITER
     /\ IsDir(fs, WRITER) /\ Name(Resolve(fs, WRITER)) = "writer-plugin"
     /\ Exists(fs, Append(WRITER, "SKILL.md")))
    => /\ OutHasFile(MS \o <<"productivity", "writer", "SKILL.md">>)
       /\ MS \o <<"plugins", "writer-plugin">> \notin DOMAIN out
       /\ \A e \in Entries(attribution[1]) : e.path # "plugins/writer-plugin"

\* C5: without skills/, a successful run copies every skill of the flat mapping
\* to official/microsoft/<name>/SKILL.md from its mapped source directory (a
\* .github/skills entry before a .github/plugins directory of the same name),
\* records exactly one entry for it, with path = name and category "root", and
\* writes nothing below plugins/.
C5_FlatFallback ==
    (Succeeded /\ ~UsedStructure) =>
        /\ \A d \in { d \in { Append(GH_SKILLS, n) : n \in ChildNames(fs, GH_SKILLS) } :
                        IsDir(fs, d) /\ Exists(fs, Append(d, "SKILL.md")) } :
              out[MS \o <<Name(d), "SKILL.md">>] = ReadData(fs, Append(d, "SKILL.md"))
        /\ \A d \in PluginSkillDirs :
              /\ OutHasFile(MS \o <<Name(d), "SKILL.md">>)
              /\ \E e \in PluginSkillDirs \cup { Append(GH_SKILLS, n) : n \in ChildNames(fs, GH_SKILLS) } :
                    /\ Name(e) = Name(d)
                    /\ out[MS \o <<Name(d), "SKILL.md">>] = ReadData(fs, Append(e, "SKILL.md"))
        /\ \A sk \in { find_all_skills(fs, order)[i] : i \in DOMAIN find_all_skills(fs, order) } :
              /\ out[MS \o <<sk.name, "SKILL.md">>] = ReadData(fs, Append(sk.source, "SKILL.md"))
              /\ Cardinality({ i \in 1..Len(attribution[1].skills) :
                                 attribution[1].skills[i].name = sk.name }) = 1
              /\ [path |-> sk.name, name |-> sk.name, category |-> "root"]
                    \in Entries(attribution[1])
        /\ attribution[1].synced_skills = Len(find_all_skills(fs, order))
        /\ \A p \in written : ~IsPrefix(MS \o <<"plugins">>, p)

C5_Witness ==
    /\ Succeeded /\ ~UsedStructure
    /\ Exists(fs, Append(GS_WRITER, "SKILL.md")) /\ fs[GS_WRITER].kind = "dir"
    /\ GP_WRITER \in PluginSkillDirs
    /\ GP_HELPER1 \in PluginSkillDirs /\ GP_HELPER2 \in PluginSkillDirs

\* C6: a second run against the unchanged source, no environment failure
\* intervening, leaves the output tree and the metadata document as the run
\* before it left them.
C6_SecondRunChangesNothing ==
    (/\ pc = "done" /\ runs >= 2
     /\ faults = 0 \/ (prev_exit = 0 /\ exit_status = 0))
    => out = out0 /\ attribution = attribution0

C6_Witness ==
    /\ pc = "done" /\ runs = 2 /\ prev_exit = 0 /\ exit_status = 0
    /\ Len(skill_metadata) >= 3
    /\ written # {}
    /\ \E p \in DOMAIN out : out[p] = "data:stale"

\* C7: once the clone has failed, the run makes no second attempt, touches
\* nothing of the output (no target directory, no copied file, no
\* ATTRIBUTION.json) and ends with exit status 1.
C7_CloneFailureTouchesNothing ==
    clone_result = "failed" =>
        /\ pc \in {"except", "done"}
        /\ clone_attempts = 1
        /\ written = {}
        /\ out = out0
        /\ attribution = attribution0
        /\ pc = "done" => exit_status = 1

C7_Witness ==
    /\ clone_result = "failed" /\ pc = "done" /\ exit_status = 1
    /\ <<>> \notin DOMAIN out

\* C8: every run ends, and when it has ended, with exit status 0 or 1, the
\* temporary clone directory is gone; it exists only while a run is going on.
C8_TempDirRemoved ==
    /\ [](pc \in {"idle", "done"} => temp = "none")
    /\ [](pc = "done" => exit_status \in {0, 1})
    /\ (temp # "none") ~> (pc = "done" /\ temp = "none")

C8_Witness ==
    /\ pc = "done" /\ exit_status = 1 /\ clone_result = "ok" /\ temp = "none"
    /\ written # {}

\* the SKILL.md files the coverage test counts as handled
CoveredSkillFiles ==
    { Append(d, "SKILL.md") :
        d \in { d \in DOMAIN fs : /\ IsPrefix(GH_SKILLS, d) \/ IsPrefix(GH_PLUGINS, d)
                                  /\ fs[d].kind = "dir"
                                  /\ Append(d, "SKILL.md") \in DOMAIN fs }
              \cup Placements }

\* C9: after a successful run, every SKILL.md in .github/skills, in
\* .github/plugins, in a symlinked directory under skills/ or in a direct
\* directory under skills/ has been copied into the output tree.
C9_CoveredSkillsCopied ==
    Succeeded =>
        \A f \in CoveredSkillFiles :
            \E p \in written : Name(p) = "SKILL.md" /\ out[p] = ReadData(fs, f)

\* C10: after a successful structure-preserving run, every directory below
\* .github/plugins holding SKILL.md whose name the structure-preserving pass has
\* not placed is copied to official/microsoft/plugins/<name>/SKILL.md and
\* recorded with path "plugins/<name>" and category "plugins".
C10_UnplacedPluginsCopied ==
    (Succeeded /\ UsedStructure) =>
        \A d \in PluginSkillDirs :
            Name(d) \notin PlacedNames =>
                /\ Append(MS \o <<"plugins", Name(d)>>, "SKILL.md") \in written
                /\ \E e \in PluginSkillDirs :
                      /\ Name(e) = Name(d)
                      /\ out[Append(MS \o <<"plugins", Name(d)>>, "SKILL.md")]
                            = ReadData(fs, Append(e, "SKILL.md"))
                /\ [path |-> "plugins/" \o Name(d), name |-> Name(d), category |-> "plugins",
                    source |-> PathStr(RelativeTo(d, SOURCE))] \in Entries(attribution[1])

C10_Witness ==
    /\ Succeeded /\ UsedStructure
    /\ GP_HELPER1 \in PluginSkillDirs /\ "helper" \notin PlacedNames
    /\ PlacedNames # {}
    /\ out[MS \o <<"plugins", "helper", "SKILL.md">>] = ReadData(fs, Append(GP_HELPER1, "SKILL.md"))

InCopyPass == pc \in {"walk", "plugins", "flat"}

\* C11: a file copy that fails in a skill-copy pass is not caught: the step
\* that fails leaves the loop for main's handler with the skills still to visit
\* unvisited and no entry recorded, the handler copies nothing more and ends
\* the run with exit status 1, and every file the run had copied is still a
\* file of the output.
C11_CopyFailureStopsRun ==
    /\ [][(InCopyPass /\ faults' # faults) =>
             /\ pc' = "except"
             /\ todo' = todo /\ skill_metadata' = skill_metadata
             /\ written \subseteq written'
             /\ \A p \in DOMAIN out : p \in DOMAIN out']_vars
    /\ [][pc = "except" =>
             /\ pc' = "done" /\ exit_status' = 1
             /\ out' = out /\ written' = written /\ attribution' = attribution]_vars
    /\ [](\A p \in written : OutHasFile(p))

C11_Witness ==
    /\ pc = "done" /\ exit_status = 1 /\ runs = 1 /\ faults = 1 /\ clone_result = "ok"
    /\ \E i \in 1..Len(skill_metadata) : skill_metadata[i].category = "plugins"
    /\ Len(todo) >= 2
    /\ Append(MS \o <<"plugins", todo[1].name>>, "SKILL.md") \in written
    /\ MS \o <<"plugins", todo[2].name>> \notin DOMAIN out

\* C12 as stated, ATTRIBUTION.json being a file of the output no copy goes to:
\* whatever the output held when the run started it still holds, with its old
\* content unless the run copied a file to that path.
C12_NothingChangesUncopied ==
    /\ \A p \in DOMAIN out0 : p \in DOMAIN out /\ (p \notin written => out[p] = out0[p])
    /\ attribution0 # <<>> => attribution = attribution0

\* C12 amended: the same for every file and directory but ATTRIBUTION.json,
\* which stays present and is rewritten by the run.
C12_NoPruning ==
    /\ \A p \in DOMAIN out0 : p \in DOMAIN out /\ (p \notin written => out[p] = out0[p])
    /\ attribution0 # <<>> => attribution # <<>>

C12_Witness ==
    /\ Succeeded /\ runs = 2 /\ prev_exit = 0
    /\ \E p \in DOMAIN out0 :
          /\ OutHasFile(p) /\ p \notin written /\ out[p] # "data:stale"
          /\ \A q \in DOMAIN fs : fs[q].data # out[p]
    /\ \E p \in DOMAIN out0 \cap written : out[p] # out0[p]
    /\ attribution # attribution0

\* the names of the regular files lying directly inside directory src
FileNamesIn(src) == { n \in ChildNames(fs, src) : IsFile(fs, Append(src, n)) }

\* C13: after a successful structure-preserving run, every placement lies at
\* the entry's own path below skills/ and holds the content of the resolved
\* source directory: SKILL.md and every other regular file directly inside it
\* were copied there, nothing else was written there, and nothing of a
\* sub-directory of the source was created there.
C13_PlacementFromEntryContentFromSource ==
    (Succeeded /\ UsedStructure) =>
        \A d \in Placements :
            /\ "SKILL.md" \in FileNamesIn(Resolve(fs, d))
            /\ \A n \in FileNamesIn(Resolve(fs, d)) :
                  /\ Append(PlacedAt(d), n) \in written
                  /\ out[Append(PlacedAt(d), n)] = ReadData(fs, Append(Resolve(fs, d), n))
            /\ \A p \in written :
                  IsPrefix(PlacedAt(d), p) =>
                      Parent(p) = PlacedAt(d) /\ Name(p) \in FileNamesIn(Resolve(fs, d))
            /\ \A n \in ChildNames(fs, Resolve(fs, d)) \ FileNamesIn(Resolve(fs, d)) :
                  \A q \in DOMAIN out \ DOMAIN out0 : ~IsPrefix(Append(PlacedAt(d), n), q)

C13_Witness ==
    /\ Succeeded /\ UsedStructure
    /\ \E d \in Placements :
          /\ IsSymlink(fs, d) /\ Name(Resolve(fs, d)) # Name(d)
          /\ out[Append(PlacedAt(d), "notes.md")]
                = ReadData(fs, Append(Resolve(fs, d), "notes.md"))
          /\ IsDir(fs, Append(Resolve(fs, d), "references"))
          /\ Append(PlacedAt(d), "references") \notin DOMAIN out
    /\ \E d \in Placements :
          /\ ~IsSymlink(fs, d)
          /\ IsDir(fs, Append(d, "references"))
          /\ Append(PlacedAt(d), "references") \notin DOMAIN out

\* C14, its last part as stated: a run that ends with exit status 1 leaves the
\* metadata document exactly as it was before the run.
C14_FailedRunKeepsDocument ==
    (pc = "done" /\ exit_status = 1) => attribution = attribution0

\* C14 amended: the metadata document changes only in the metadata step, which
\* a run reaches once, from the documentation copy, after the clone and with no
\* skill left to copy; a run that fails before that step ends with exit status 1
\* and the document as it was before the run, and one that fails in that step
\* leaves the document as it was or truncated.
C14_MetadataWrittenLastAndOnce ==
    /\ [][attribution' # attribution =>
             /\ pc = "attr" /\ pc' \in {"summary", "except"}
             /\ clone_result = "ok" /\ todo = <<>>
             /\ attribution = attribution0]_vars
    /\ [][pc' = "attr" => pc = "docs" /\ faults' = faults]_vars
    /\ [][(pc' = "except" /\ pc # "attr") => attribution' = attribution0]_vars
    /\ [][(pc' = "except" /\ pc = "attr") =>
             attribution' \in {attribution0, <<TruncatedDoc>>}]_vars
    /\ [][pc = "except" =>
             pc' = "done" /\ exit_status' = 1 /\ attribution' = attribution]_vars
    /\ [][exit_status' = 1 => pc = "except"]_vars

C14_Witness ==
    /\ pc = "done" /\ exit_status = 1 /\ runs = 2 /\ prev_exit = 0
    /\ clone_result = "ok" /\ written # {}
    /\ attribution = attribution0
    /\ Len(attribution) = 1 /\ attribution[1].complete /\ attribution[1].skills # <<>>
    /\ attribution # <<StaleDoc>>

Spec == Init /\ [][Next]_vars

\* main() is sequential and every step of it ends: a run in progress goes on.
\* Termination is checked over the trees in which skills/productivity/writer is
\* a link, into the clone or out of it, starting from the stale output tree.
FairTrees ==
    { Tree(sk, w, "link_gp", h1, FALSE, sh, FALSE) :
        sk \in BOOLEAN, w \in {"link_gs", "link_ext"}, h1 \in BOOLEAN, sh \in BOOLEAN }
FairInit == Init /\ fs \in FairTrees /\ order = "asc" /\ out = StaleOut
FairSpec == FairInit /\ [][Next]_vars /\ WF_vars(Next)

\* Between two runs the upstream repository may change: the next clone fetches
\* another tree, here one with or without skills/ and with or without the
\* writer-plugin skill.
ChangeTrees ==
    { Tree(sk, "dir", gs, TRUE, FALSE, FALSE, FALSE) :
        sk \in BOOLEAN, gs \in {"none", "dir_and_gp"} }
UpstreamChange ==
    /\ pc = "done"
    /\ runs < MaxRuns
    /\ fs' \in ChangeTrees \ {fs}
    /\ UNCHANGED <<order, out, attribution, temp, pc, todo, skill_metadata, synced_count,
                   exit_status, runs, faults, written, out0, attribution0, prev_exit,
                   clone_result, clone_attempts>>
ChangeInit == Init /\ fs \in ChangeTrees
ChangeNext == Next \/ UpstreamChange
ChangeSpec == ChangeInit /\ [][ChangeNext]_vars
====
